---- MODULE Spec2Model ----
(***************************************************************************)
(* ASTM D6433 PCI calculator: the engine's curve tables, curve loading,    *)
(* the sample-unit PCI calculation with its CDV iteration loop, and the    *)
(* area-weighted section aggregation.                                      *)
(*                                                                         *)
(* Numbers.  The program computes on Python floats.  Here a number is an   *)
(* integer count of 1/Scale units (fixed point, tenths), so 2.0 is         *)
(* 2 * Scale and 100 is 100 * Scale; a quotient is rounded down to that    *)
(* grid.  Curve points are written in those units.                         *)
(***************************************************************************)
EXTENDS Integers, Sequences, FiniteSets, TLC

\* Fixed-point resolution: units per 1.0 (the example curves use tenths).
Scale == 10

\* The float n as a fixed-point number.
Num(n) == n * Scale

Max2(a, b) == IF a >= b THEN a ELSE b
Min2(a, b) == IF a <= b THEN a ELSE b

\* Python's None, as a severity key.
None == "None"

(***************************************************************************)
(* Bounds of the model.                                                    *)
(***************************************************************************)
\* Longest observation list passed to calculate_sample_pci.
MaxObs == 3
\* Most curves in one load_deduct_curves / load_cdv_curves call.
MaxCurves == 2
\* Most sample units in a section.
MaxUnits == 2

(***************************************************************************)
(* curves.py                                                               *)
(***************************************************************************)

\* bisect.bisect_right(a, x, lo, hi): the binary search of the library.
RECURSIVE bisect_right_from(_, _, _, _)
bisect_right_from(a, x, lo, hi) ==
  IF lo < hi
    THEN LET mid == (lo + hi) \div 2     \* 0-based index, a[mid] is a[mid + 1] here
         IN  IF x < a[mid + 1]
               THEN bisect_right_from(a, x, lo, mid)
               ELSE bisect_right_from(a, x, mid + 1, hi)
    ELSE lo

bisect_right(a, x) == bisect_right_from(a, x, 0, Len(a))

\* interpolate_curve raises ValueError on an empty point list.
interpolate_curve_raises(points) == points = << >>

\* bisect_left in the place of bisect_right: the insertion point before the
\* entries equal to x.
insertion_index_left(points, x) ==
  Cardinality({i \in 1..Len(points) : points[i][1] < x})

\* idx of interpolate_curve (lines 35-36), 0-based: the insertion point of x
\* in the x values, after the entries equal to x.
insertion_index(points, x) ==
  LET x_values == [i \in 1..Len(points) |-> points[i][1]]
  IN  bisect_right(x_values, x)

\* interpolate_curve(points, x) for a non-empty point list.
interpolate_curve(points, x) ==
  IF x <= points[1][1] THEN points[1][2]
  ELSE IF x >= points[Len(points)][1] THEN points[Len(points)][2]
  ELSE LET idx == insertion_index(points, x)     \* 0-based
           x0 == points[idx][1]                  \* points[idx - 1]
           y0 == points[idx][2]
           x1 == points[idx + 1][1]              \* points[idx]
           y1 == points[idx + 1][2]
       IN  IF x1 = x0 THEN y0
           ELSE y0 + ((x - x0) * (y1 - y0)) \div (x1 - x0)

\* validate_curve(points): TRUE when it returns True, FALSE when it raises.
validate_curve(points) ==
  /\ Len(points) >= 2
  /\ \A i \in 2..Len(points) : points[i][1] > points[i - 1][1]
  /\ \A i \in 1..Len(points) : points[i][1] >= 0 /\ points[i][2] >= 0

\* sorted(points, key=lambda p: p[0]): a stable sort by x.
RECURSIVE sorted_by_x(_)
sorted_by_x(points) ==
  IF points = << >> THEN << >>
  ELSE LET n == Len(points)
           front == sorted_by_x(SubSeq(points, 1, n - 1))
           p == points[n]
           k == Cardinality({i \in 1..Len(front) : front[i][1] <= p[1]})
       IN  SubSeq(front, 1, k) \o <<p>> \o SubSeq(front, k + 1, Len(front))

\* DeductCurve.__init__ / CDVCurve.__init__: the curve object is its sorted
\* point list; the constructor raises when validation fails.
Curve(points) ==
  LET pts == sorted_by_x(points)
  IN  [raised |-> ~validate_curve(pts), points |-> pts]

\* DeductCurve.get_deduct_value(density)
DeductCurve_get_deduct_value(points, density) ==
  Max2(0, Min2(Num(100), interpolate_curve(points, density)))

\* CDVCurve.get_cdv(tdv)
CDVCurve_get_cdv(points, tdv) ==
  Max2(0, Min2(Num(100), interpolate_curve(points, tdv)))

\* The placeholder curve data, in insertion order; (x, y) in 1/Scale units.
EXAMPLE_DEDUCT_CURVES ==
  <<
    [key |-> <<1, "L">>, points |-> <<<<0, 0>>, <<10, 60>>, <<50, 180>>, <<100, 260>>, <<200, 340>>, <<500, 440>>, <<1000, 520>>>>],
    [key |-> <<1, "M">>, points |-> <<<<0, 0>>, <<10, 120>>, <<50, 320>>, <<100, 440>>, <<200, 560>>, <<500, 720>>, <<1000, 840>>>>],
    [key |-> <<1, "H">>, points |-> <<<<0, 0>>, <<10, 180>>, <<50, 420>>, <<100, 560>>, <<200, 700>>, <<500, 880>>, <<1000, 1000>>>>],
    [key |-> <<3, "L">>, points |-> <<<<0, 0>>, <<10, 20>>, <<50, 60>>, <<100, 100>>, <<200, 150>>, <<500, 220>>, <<1000, 300>>>>],
    [key |-> <<3, "M">>, points |-> <<<<0, 0>>, <<10, 40>>, <<50, 120>>, <<100, 180>>, <<200, 260>>, <<500, 380>>, <<1000, 500>>>>],
    [key |-> <<3, "H">>, points |-> <<<<0, 0>>, <<10, 80>>, <<50, 200>>, <<100, 300>>, <<200, 420>>, <<500, 600>>, <<1000, 780>>>>],
    [key |-> <<10, "L">>, points |-> <<<<0, 0>>, <<10, 20>>, <<50, 60>>, <<100, 100>>, <<200, 140>>, <<500, 200>>, <<1000, 280>>>>],
    [key |-> <<10, "M">>, points |-> <<<<0, 0>>, <<10, 50>>, <<50, 140>>, <<100, 220>>, <<200, 320>>, <<500, 460>>, <<1000, 620>>>>],
    [key |-> <<10, "H">>, points |-> <<<<0, 0>>, <<10, 100>>, <<50, 260>>, <<100, 380>>, <<200, 520>>, <<500, 720>>, <<1000, 900>>>>],
    [key |-> <<13, "L">>, points |-> <<<<0, 0>>, <<1, 80>>, <<5, 180>>, <<10, 240>>, <<20, 320>>, <<50, 420>>, <<100, 520>>>>],
    [key |-> <<13, "M">>, points |-> <<<<0, 0>>, <<1, 150>>, <<5, 320>>, <<10, 420>>, <<20, 540>>, <<50, 700>>, <<100, 840>>>>],
    [key |-> <<13, "H">>, points |-> <<<<0, 0>>, <<1, 220>>, <<5, 480>>, <<10, 620>>, <<20, 780>>, <<50, 940>>, <<100, 1000>>>>],
    [key |-> <<15, "L">>, points |-> <<<<0, 0>>, <<10, 40>>, <<50, 100>>, <<100, 140>>, <<200, 200>>, <<500, 280>>, <<1000, 360>>>>],
    [key |-> <<15, "M">>, points |-> <<<<0, 0>>, <<10, 80>>, <<50, 200>>, <<100, 300>>, <<200, 420>>, <<500, 580>>, <<1000, 740>>>>],
    [key |-> <<15, "H">>, points |-> <<<<0, 0>>, <<10, 140>>, <<50, 340>>, <<100, 480>>, <<200, 640>>, <<500, 840>>, <<1000, 980>>>>],
    [key |-> <<19, "L">>, points |-> <<<<0, 0>>, <<10, 10>>, <<50, 30>>, <<100, 50>>, <<200, 80>>, <<500, 140>>, <<1000, 200>>>>],
    [key |-> <<19, "M">>, points |-> <<<<0, 0>>, <<10, 40>>, <<50, 100>>, <<100, 160>>, <<200, 240>>, <<500, 360>>, <<1000, 500>>>>],
    [key |-> <<19, "H">>, points |-> <<<<0, 0>>, <<10, 80>>, <<50, 200>>, <<100, 320>>, <<200, 460>>, <<500, 660>>, <<1000, 860>>>>]
  >>

EXAMPLE_CDV_CURVES ==
  <<
    [key |-> 1, points |-> <<<<0, 0>>, <<100, 100>>, <<200, 200>>, <<500, 500>>, <<1000, 1000>>, <<1500, 1000>>, <<2000, 1000>>>>],
    [key |-> 2, points |-> <<<<0, 0>>, <<100, 80>>, <<200, 150>>, <<500, 400>>, <<1000, 720>>, <<1500, 880>>, <<2000, 960>>>>],
    [key |-> 3, points |-> <<<<0, 0>>, <<100, 60>>, <<200, 120>>, <<500, 320>>, <<1000, 580>>, <<1500, 760>>, <<2000, 880>>>>],
    [key |-> 4, points |-> <<<<0, 0>>, <<100, 50>>, <<200, 100>>, <<500, 260>>, <<1000, 480>>, <<1500, 660>>, <<2000, 800>>>>],
    [key |-> 5, points |-> <<<<0, 0>>, <<100, 40>>, <<200, 80>>, <<500, 220>>, <<1000, 420>>, <<1500, 580>>, <<2000, 720>>>>],
    [key |-> 6, points |-> <<<<0, 0>>, <<100, 40>>, <<200, 70>>, <<500, 190>>, <<1000, 370>>, <<1500, 520>>, <<2000, 660>>>>],
    [key |-> 7, points |-> <<<<0, 0>>, <<100, 30>>, <<200, 60>>, <<500, 170>>, <<1000, 330>>, <<1500, 470>>, <<2000, 600>>>>]
  >>

(***************************************************************************)
(* distresses.py                                                           *)
(***************************************************************************)

\* DistressType.calculate_density(quantity, sample_area), sample_area > 0.
calculate_density(quantity, sample_area) ==
  (quantity * 100 * Scale) \div sample_area

(***************************************************************************)
(* calculator.py: the engine                                               *)
(***************************************************************************)

EmptyTable == [k \in {} |-> << >>]

\* self.table[key] = curve
DictSet(table, key, curve) ==
  [k \in (DOMAIN table) \cup {key} |-> IF k = key THEN curve ELSE table[k]]

\* The loop "for key, points in curves.items(): self.table[key] = Curve(...)"
\* from entry i on: it stops at the first curve whose constructor raises and
\* leaves the table as filled so far.
RECURSIVE load_loop(_, _, _)
load_loop(curves, i, table) ==
  IF i > Len(curves) THEN [raised |-> FALSE, table |-> table]
  ELSE LET c == Curve(curves[i].points)
       IN  IF c.raised THEN [raised |-> TRUE, table |-> table]
           ELSE load_loop(curves, i + 1, DictSet(table, curves[i].key, c.points))

\* PCICalculator.load_deduct_curves(curves): self.deduct_curves = {} and the loop.
load_deduct_curves(curves) == load_loop(curves, 1, EmptyTable)

\* PCICalculator.load_cdv_curves(curves): self.cdv_curves = {} and the loop.
load_cdv_curves(curves) == load_loop(curves, 1, EmptyTable)

\* PCICalculator._load_example_curves, on the empty tables of __init__.
load_example_deduct_curves == load_loop(EXAMPLE_DEDUCT_CURVES, 1, EmptyTable).table
load_example_cdv_curves == load_loop(EXAMPLE_CDV_CURVES, 1, EmptyTable).table

\* get_deduct_value with a default instead of the error: a key without a curve
\* deducts nothing.
get_deduct_value_default(deduct, distress_id, severity, density) ==
  LET key == <<distress_id, severity>>
  IN  IF key \notin DOMAIN deduct
        THEN [raised |-> FALSE, value |-> 0]
        ELSE [raised |-> FALSE,
              value |-> DeductCurve_get_deduct_value(deduct[key], density)]

SetMax(S) == CHOOSE m \in S : \A n \in S : n <= m

\* PCICalculator.get_deduct_value(distress_id, severity, density)
get_deduct_value(deduct, distress_id, severity, density) ==
  LET key == <<distress_id, severity>>
  IN  IF key \notin DOMAIN deduct
        THEN [raised |-> TRUE, value |-> 0]
        ELSE [raised |-> FALSE,
              value |-> DeductCurve_get_deduct_value(deduct[key], density)]

\* get_cdv without the clamp to the largest bucket: q is looked up as it is.
get_cdv_unclamped(cdv, tdv, q) ==
  IF DOMAIN cdv = {}
    THEN [err |-> "max() arg is an empty sequence", value |-> 0]
    ELSE LET q_clamped == Max2(1, q)
         IN  IF q_clamped \notin DOMAIN cdv
               THEN [err |-> "No CDV curve for q", value |-> 0]
               ELSE [err |-> "", value |-> CDVCurve_get_cdv(cdv[q_clamped], tdv)]

\* PCICalculator.get_cdv(tdv, q): err names the ValueError raised, "" if none.
get_cdv(cdv, tdv, q) ==
  IF DOMAIN cdv = {}
    THEN [err |-> "max() arg is an empty sequence", value |-> 0]
    ELSE LET q_clamped == Max2(1, Min2(q, SetMax(DOMAIN cdv)))
         IN  IF q_clamped \notin DOMAIN cdv
               THEN [err |-> "No CDV curve for q", value |-> 0]
               ELSE [err |-> "", value |-> CDVCurve_get_cdv(cdv[q_clamped], tdv)]

\* class attribute MAX_DEDUCT_VALUES_FORMULA
MAX_DEDUCT_VALUES_FORMULA == TRUE

\* _calculate_max_deduct_values rounding m up instead of truncating it.
calculate_max_deduct_values_round_up(highest_dv) ==
  IF ~MAX_DEDUCT_VALUES_FORMULA THEN 100
  ELSE Max2(1, 2 + (9 * (Num(100) - highest_dv)) \div (98 * Scale))

\* PCICalculator._calculate_max_deduct_values(highest_dv):
\* max(1, int(1 + (9/98) * (100 - highest_dv))).
calculate_max_deduct_values(highest_dv) ==
  IF ~MAX_DEDUCT_VALUES_FORMULA THEN 100
  ELSE Max2(1, 1 + (9 * (Num(100) - highest_dv)) \div (98 * Scale))

\* get_pci_rating(pci)
get_pci_rating(pci) ==
  IF pci >= Num(85) THEN "Good"
  ELSE IF pci >= Num(70) THEN "Satisfactory"
  ELSE IF pci >= Num(55) THEN "Fair"
  ELSE IF pci >= Num(40) THEN "Poor"
  ELSE IF pci >= Num(25) THEN "Very Poor"
  ELSE IF pci >= Num(10) THEN "Serious"
  ELSE "Failed"

\* A PCIResult returned, or the ValueError raised (err is its message).
PCIResult(pci, rating, dvs, max_cdv, cdvs) ==
  [kind |-> "return", err |-> "", pci |-> pci, rating |-> rating,
   deduct_values |-> dvs, max_cdv |-> max_cdv, iteration_cdvs |-> cdvs]

Raise(msg) ==
  [kind |-> "raise", err |-> msg, pci |-> 0, rating |-> "",
   deduct_values |-> << >>, max_cdv |-> 0, iteration_cdvs |-> << >>]

NoResult ==
  [kind |-> "none", err |-> "", pci |-> 0, rating |-> "",
   deduct_values |-> << >>, max_cdv |-> 0, iteration_cdvs |-> << >>]

PerfectPavement == PCIResult(Num(100), "Good", << >>, 0, << >>)

\* Step 1 of calculate_sample_pci from observation i on: the deduct values
\* > 0 in observation order; it raises at the first key without a curve.
RECURSIVE deduct_value_loop(_, _, _, _, _)
deduct_value_loop(deduct, obs, sample_area, i, acc) ==
  IF i > Len(obs) THEN [raised |-> FALSE, values |-> acc]
  ELSE LET density == calculate_density(obs[i].quantity, sample_area)
           dv == get_deduct_value(deduct, obs[i].id, obs[i].severity, density)
       IN  IF dv.raised THEN [raised |-> TRUE, values |-> acc]
           ELSE deduct_value_loop(deduct, obs, sample_area, i + 1,
                  IF dv.value > 0 THEN Append(acc, dv.value) ELSE acc)

\* list.sort(reverse=True)
RECURSIVE sort_reverse(_)
sort_reverse(s) ==
  IF s = << >> THEN << >>
  ELSE LET n == Len(s)
           front == sort_reverse(SubSeq(s, 1, n - 1))
           k == Cardinality({i \in 1..Len(front) : front[i] >= s[n]})
       IN  SubSeq(front, 1, k) \o <<s[n]>> \o SubSeq(front, k + 1, Len(front))

\* s[:n]
Take(s, n) == SubSeq(s, 1, Min2(n, Len(s)))

\* sum(dvs)
RECURSIVE Sum(_)
Sum(s) == IF s = << >> THEN 0 ELSE s[1] + Sum(Tail(s))

\* sum(1 for dv in dvs if dv > 2.0)
CountAbove2(s) == Cardinality({i \in 1..Len(s) : s[i] > Num(2)})

\* max(iteration_cdvs)
SeqMax(s) == SetMax({s[i] : i \in 1..Len(s)})

\* sample_begin with the empty-observations short-circuit ahead of the area
\* check.
sample_begin_empty_first(deduct, observations, sample_area) ==
  IF observations = << >>
    THEN [over |-> TRUE, result |-> PerfectPavement,
          deduct_values |-> << >>, max_dvs |-> 0]
  ELSE IF sample_area <= 0
    THEN [over |-> TRUE, result |-> Raise("Sample area must be positive"),
          deduct_values |-> << >>, max_dvs |-> 0]
  ELSE LET step1 == deduct_value_loop(deduct, observations, sample_area, 1, << >>)
       IN  IF step1.raised
             THEN [over |-> TRUE, result |-> Raise("No deduct curve"),
                   deduct_values |-> << >>, max_dvs |-> 0]
           ELSE IF step1.values = << >>
             THEN [over |-> TRUE, result |-> PerfectPavement,
                   deduct_values |-> << >>, max_dvs |-> 0]
           ELSE LET sorted == sort_reverse(step1.values)
                    m == calculate_max_deduct_values(sorted[1])
                IN  [over |-> FALSE, result |-> NoResult,
                     deduct_values |-> Take(sorted, m), max_dvs |-> m]

\* calculate_sample_pci up to the loop (lines 208-245): either the call is over
\* (a result or an error), or the loop is entered with the capped list.
sample_begin(deduct, observations, sample_area) ==
  IF sample_area <= 0
    THEN [over |-> TRUE, result |-> Raise("Sample area must be positive"),
          deduct_values |-> << >>, max_dvs |-> 0]
  ELSE IF observations = << >>
    THEN [over |-> TRUE, result |-> PerfectPavement,
          deduct_values |-> << >>, max_dvs |-> 0]
  ELSE LET step1 == deduct_value_loop(deduct, observations, sample_area, 1, << >>)
       IN  IF step1.raised
             THEN [over |-> TRUE, result |-> Raise("No deduct curve"),
                   deduct_values |-> << >>, max_dvs |-> 0]
           ELSE IF step1.values = << >>
             THEN [over |-> TRUE, result |-> PerfectPavement,
                   deduct_values |-> << >>, max_dvs |-> 0]
           ELSE LET sorted == sort_reverse(step1.values)
                    m == calculate_max_deduct_values(sorted[1])
                IN  [over |-> FALSE, result |-> NoResult,
                     deduct_values |-> Take(sorted, m), max_dvs |-> m]

\* The index of the last entry > 2.0 (the downward for-loop of lines 264-267),
\* 0 when there is none.
last_above2(s) ==
  IF \E i \in 1..Len(s) : s[i] > Num(2)
    THEN SetMax({i \in 1..Len(s) : s[i] > Num(2)})
    ELSE 0

\* Step 4 with the last round's CDV in the place of the maximum.
sample_result_last_cdv(deduct_values, cdvs) ==
  LET max_cdv == cdvs[Len(cdvs)]
      pci == Max2(0, Min2(Num(100), Num(100) - max_cdv))
  IN  PCIResult(pci, get_pci_rating(pci), deduct_values, max_cdv, cdvs)

\* Step 4 reporting the penalty itself as the index.
sample_result_pci_is_cdv(deduct_values, cdvs) ==
  LET max_cdv == SeqMax(cdvs)
      pci == Max2(0, Min2(Num(100), max_cdv))
  IN  PCIResult(pci, get_pci_rating(pci), deduct_values, max_cdv, cdvs)

\* Step 4 (lines 269-280): the result from the recorded CDVs.
sample_result(deduct_values, cdvs) ==
  LET max_cdv == SeqMax(cdvs)
      pci == Max2(0, Min2(Num(100), Num(100) - max_cdv))
  IN  PCIResult(pci, get_pci_rating(pci), deduct_values, max_cdv, cdvs)

\* A round that flattens the last entry of the working set, above 2.0 or not.
sample_round_flatten_last(cdv, deduct_values, w, cdvs) ==
  LET q0 == CountAbove2(w)
      q == IF q0 = 0 THEN 1 ELSE q0
      tdv == Sum(w)
      c == get_cdv(cdv, tdv, q)
  IN  IF c.err # ""
        THEN [over |-> TRUE, result |-> Raise(c.err), dvs |-> w, cdvs |-> cdvs]
      ELSE IF q <= 1
        THEN [over |-> TRUE,
              result |-> sample_result(deduct_values, Append(cdvs, c.value)),
              dvs |-> w, cdvs |-> Append(cdvs, c.value)]
      ELSE [over |-> FALSE, result |-> NoResult,
            dvs |-> [w EXCEPT ![Len(w)] = Num(2)],
            cdvs |-> Append(cdvs, c.value)]

\* A round whose search for the entry to flatten runs upwards: it flattens
\* the first entry above 2.0.
sample_round_flatten_first(cdv, deduct_values, w, cdvs) ==
  LET q0 == CountAbove2(w)
      q == IF q0 = 0 THEN 1 ELSE q0
      tdv == Sum(w)
      c == get_cdv(cdv, tdv, q)
      first == CHOOSE i \in 1..Len(w) :
                 w[i] > Num(2) /\ \A j \in 1..(i - 1) : w[j] <= Num(2)
  IN  IF c.err # ""
        THEN [over |-> TRUE, result |-> Raise(c.err), dvs |-> w, cdvs |-> cdvs]
      ELSE IF q <= 1
        THEN [over |-> TRUE,
              result |-> sample_result(deduct_values, Append(cdvs, c.value)),
              dvs |-> w, cdvs |-> Append(cdvs, c.value)]
      ELSE [over |-> FALSE, result |-> NoResult,
            dvs |-> [w EXCEPT ![first] = Num(2)],
            cdvs |-> Append(cdvs, c.value)]

\* A round of a loop that works on the capped list itself, not on a copy:
\* the list reported is the working set.
sample_round_no_copy(cdv, deduct_values, w, cdvs) ==
  LET q0 == CountAbove2(w)
      q == IF q0 = 0 THEN 1 ELSE q0
      tdv == Sum(w)
      c == get_cdv(cdv, tdv, q)
  IN  IF c.err # ""
        THEN [over |-> TRUE, result |-> Raise(c.err), dvs |-> w, cdvs |-> cdvs]
      ELSE IF q <= 1
        THEN [over |-> TRUE,
              result |-> sample_result(w, Append(cdvs, c.value)),
              dvs |-> w, cdvs |-> Append(cdvs, c.value)]
      ELSE [over |-> FALSE, result |-> NoResult,
            dvs |-> [w EXCEPT ![last_above2(w)] = Num(2)],
            cdvs |-> Append(cdvs, c.value)]

\* One round of the while-loop (lines 247-267) on the working set w with the
\* CDVs recorded so far: the loop goes on with a new working set, or the call
\* is over (break and step 4, or the error of get_cdv).
sample_round(cdv, deduct_values, w, cdvs) ==
  LET q0 == CountAbove2(w)
      q == IF q0 = 0 THEN 1 ELSE q0
      tdv == Sum(w)
      c == get_cdv(cdv, tdv, q)
  IN  IF c.err # ""
        THEN [over |-> TRUE, result |-> Raise(c.err), dvs |-> w, cdvs |-> cdvs]
      ELSE IF q <= 1
        THEN [over |-> TRUE,
              result |-> sample_result(deduct_values, Append(cdvs, c.value)),
              dvs |-> w, cdvs |-> Append(cdvs, c.value)]
      ELSE [over |-> FALSE, result |-> NoResult,
            dvs |-> [w EXCEPT ![last_above2(w)] = Num(2)],
            cdvs |-> Append(cdvs, c.value)]

\* The while-loop run to its end.
RECURSIVE sample_loop(_, _, _, _)
sample_loop(cdv, deduct_values, w, cdvs) ==
  LET r == sample_round(cdv, deduct_values, w, cdvs)
  IN  IF r.over THEN r.result
      ELSE sample_loop(cdv, deduct_values, r.dvs, r.cdvs)

\* PCICalculator.calculate_sample_pci(observations, sample_area)
calculate_sample_pci(deduct, cdv, observations, sample_area) ==
  LET b == sample_begin(deduct, observations, sample_area)
  IN  IF b.over THEN b.result
      ELSE sample_loop(cdv, b.deduct_values, b.deduct_values, << >>)

\* The for-loop catching a unit's error and going on to the next unit.
RECURSIVE section_loop_skip_failed(_, _, _, _, _)
section_loop_skip_failed(deduct, cdv, units, i, weighted_sum) ==
  IF i > Len(units) THEN [err |-> "", weighted_sum |-> weighted_sum]
  ELSE LET r == calculate_sample_pci(deduct, cdv, units[i].observations, units[i].area)
       IN  section_loop_skip_failed(deduct, cdv, units, i + 1,
             IF r.kind = "raise" THEN weighted_sum
             ELSE weighted_sum + r.pci * units[i].area)

\* The for-loop of calculate_section_pci from unit i on (lines 334-336).
RECURSIVE section_loop(_, _, _, _, _)
section_loop(deduct, cdv, units, i, weighted_sum) ==
  IF i > Len(units) THEN [err |-> "", weighted_sum |-> weighted_sum]
  ELSE LET r == calculate_sample_pci(deduct, cdv, units[i].observations, units[i].area)
       IN  IF r.kind = "raise" THEN [err |-> r.err, weighted_sum |-> weighted_sum]
           ELSE section_loop(deduct, cdv, units, i + 1,
                             weighted_sum + r.pci * units[i].area)

\* sum(su.area for su in self.sample_units)
RECURSIVE total_area(_)
total_area(units) ==
  IF units = << >> THEN 0 ELSE units[1].area + total_area(Tail(units))

\* PavementSection.calculate_section_pci(calculator): value is the float
\* returned when err = "".
calculate_section_pci(deduct, cdv, units) ==
  IF units = << >> THEN [err |-> "", value |-> Num(100)]
  ELSE IF total_area(units) = 0 THEN [err |-> "", value |-> Num(100)]
  ELSE LET l == section_loop(deduct, cdv, units, 1, 0)
       IN  IF l.err # "" THEN [err |-> l.err, value |-> 0]
           ELSE [err |-> "", value |-> l.weighted_sum \div total_area(units)]

(***************************************************************************)
(* The engine as a state machine: one engine, one caller.  A call of       *)
(* calculate_sample_pci is followed round by round through its while-loop; *)
(* the caller starts the next call once the last one is over and its       *)
(* result has been taken.                                                  *)
(***************************************************************************)
VARIABLES
  deduct_curves,    \* self.deduct_curves: key -> sorted point list
  cdv_curves,       \* self.cdv_curves: q -> sorted point list
  op,               \* the method being called, "none" between calls
  pc,               \* "idle", "loop" (inside the while-loop) or "done"
  curves,           \* load_*_curves: the argument, in dict order
  before,           \* load_*_curves: the table before the call
  load_raised,      \* load_*_curves: the call raised a validation error
  observations,     \* calculate_sample_pci: the argument
  sample_area,      \* calculate_sample_pci: the argument
  deduct_values,    \* calculate_sample_pci: the capped list (line 241)
  max_dvs,          \* calculate_sample_pci: max_dvs (line 240)
  dvs,              \* calculate_sample_pci: the working set (line 245)
  iteration_cdvs,   \* calculate_sample_pci: the CDVs recorded so far
  result,           \* calculate_sample_pci: what it returned or raised
  sample_units,     \* calculate_section_pci: the section's units
  section           \* calculate_section_pci: what it returned or raised

vars == <<deduct_curves, cdv_curves, op, pc, curves, before, load_raised,
          observations, sample_area, deduct_values, max_dvs, dvs,
          iteration_cdvs, result, sample_units, section>>

NoSection == [err |-> "", value |-> -1]

\* Sequences over S of length at most n.
SeqsUpTo(S, n) == UNION {[1..k -> S] : k \in 0..n}

\* A dict argument: entries with pairwise different keys.
Dicts(S, n) ==
  {d \in SeqsUpTo(S, n) :
     \A i, j \in 1..Len(d) : i # j => d[i].key # d[j].key}

Obs(id, severity, quantity) ==
  [id |-> id, severity |-> severity, quantity |-> quantity]

\* Observations a caller records (each satisfies DistressObservation's checks).
ObsChoices ==
  { Obs(1, "H", Num(100)), Obs(1, "H", Num(50)), Obs(1, "L", Num(5)),
    Obs(3, "L", Num(1)), Obs(19, "L", 0), Obs(12, None, Num(5)) }

SampleAreas == { 0 - Num(100), 0, Num(100) }

\* Curves a caller loads: a line given out of order, a short list, a flat
\* curve, a curve with a repeated x.
DeductLoadChoices ==
  { [key |-> <<1, "H">>, points |-> << <<Num(100), Num(100)>>, <<0, 0>> >>],
    [key |-> <<1, "L">>, points |-> << <<0, 0>>, <<Num(100), Num(100)>> >>],
    [key |-> <<1, "H">>, points |-> << <<0, 0>> >>],
    [key |-> <<1, "L">>, points |-> << <<0, 0>>, <<Num(10), 0 - Num(1)>> >>] }

CdvLoadChoices ==
  { [key |-> 1, points |-> << <<0, 0>>, <<Num(200), Num(100)>> >>],
    [key |-> 1, points |-> << <<0, 0>>, <<Num(200), 0>> >>],
    [key |-> 3, points |-> << <<Num(200), Num(100)>>, <<0, 0>> >>],
    [key |-> 3, points |-> << <<0, 0>>, <<0, Num(5)>> >>] }

Unit(area, obs) == [area |-> area, observations |-> obs]

UnitChoices ==
  { Unit(a, o) : a \in SampleAreas,
                 o \in { << >>, <<Obs(1, "H", Num(50))>>, <<Obs(1, "L", Num(5))>>,
                         <<Obs(12, None, Num(5))>> } }

ClearLoad ==
  /\ curves' = << >>
  /\ before' = EmptyTable
  /\ load_raised' = FALSE

ClearSample ==
  /\ observations' = << >>
  /\ sample_area' = 0
  /\ deduct_values' = << >>
  /\ max_dvs' = 0
  /\ dvs' = << >>
  /\ iteration_cdvs' = << >>
  /\ result' = NoResult

ClearSection ==
  /\ sample_units' = << >>
  /\ section' = NoSection

\* PCICalculator(): the tables hold the example curves.
Init ==
  /\ deduct_curves = load_example_deduct_curves
  /\ cdv_curves = load_example_cdv_curves
  /\ op = "none"
  /\ pc = "idle"
  /\ curves = << >>
  /\ before = EmptyTable
  /\ load_raised = FALSE
  /\ observations = << >>
  /\ sample_area = 0
  /\ deduct_values = << >>
  /\ max_dvs = 0
  /\ dvs = << >>
  /\ iteration_cdvs = << >>
  /\ result = NoResult
  /\ sample_units = << >>
  /\ section = NoSection

\* calculator.load_deduct_curves(c)
LoadDeductCurves ==
  /\ pc = "idle"
  /\ \E c \in Dicts(DeductLoadChoices, MaxCurves) :
       LET l == load_deduct_curves(c)
       IN  /\ deduct_curves' = l.table
           /\ load_raised' = l.raised
           /\ curves' = c
  /\ before' = deduct_curves
  /\ op' = "load_deduct_curves"
  /\ pc' = "done"
  /\ ClearSample /\ ClearSection
  /\ UNCHANGED cdv_curves

\* calculator.load_cdv_curves(c)
LoadCdvCurves ==
  /\ pc = "idle"
  /\ \E c \in Dicts(CdvLoadChoices, MaxCurves) :
       LET l == load_cdv_curves(c)
       IN  /\ cdv_curves' = l.table
           /\ load_raised' = l.raised
           /\ curves' = c
  /\ before' = cdv_curves
  /\ op' = "load_cdv_curves"
  /\ pc' = "done"
  /\ ClearSample /\ ClearSection
  /\ UNCHANGED deduct_curves

\* calculator.calculate_sample_pci(o, a), up to the while-loop.
CalculateSamplePci ==
  /\ pc = "idle"
  /\ \E o \in SeqsUpTo(ObsChoices, MaxObs), a \in SampleAreas :
       LET b == sample_begin(deduct_curves, o, a)
       IN  /\ observations' = o
           /\ sample_area' = a
           /\ deduct_values' = b.deduct_values
           /\ max_dvs' = b.max_dvs
           /\ dvs' = b.deduct_values
           /\ result' = b.result
           /\ pc' = IF b.over THEN "done" ELSE "loop"
  /\ iteration_cdvs' = << >>
  /\ op' = "calculate_sample_pci"
  /\ ClearLoad /\ ClearSection
  /\ UNCHANGED <<deduct_curves, cdv_curves>>

\* A round that keeps the curve it was clamped to under the key q it was
\* asked for, so that the next lookup of q finds it.
IterationRound_caches_bucket ==
  /\ pc = "loop"
  /\ LET r == sample_round(cdv_curves, deduct_values, dvs, iteration_cdvs)
         q == Max2(1, CountAbove2(dvs))
     IN  /\ dvs' = r.dvs
         /\ iteration_cdvs' = r.cdvs
         /\ result' = r.result
         /\ pc' = IF r.over THEN "done" ELSE "loop"
         /\ cdv_curves' =
              IF DOMAIN cdv_curves # {} /\ q > SetMax(DOMAIN cdv_curves)
                   /\ SetMax(DOMAIN cdv_curves) >= 1
                THEN DictSet(cdv_curves, q, cdv_curves[SetMax(DOMAIN cdv_curves)])
                ELSE cdv_curves
  /\ UNCHANGED <<deduct_curves, op, curves, before, load_raised,
                 observations, sample_area, deduct_values, max_dvs,
                 sample_units, section>>

\* One round of the while-loop of calculate_sample_pci; the last round
\* goes on to step 4 and returns.
IterationRound ==
  /\ pc = "loop"
  /\ LET r == sample_round(cdv_curves, deduct_values, dvs, iteration_cdvs)
     IN  /\ dvs' = r.dvs
         /\ iteration_cdvs' = r.cdvs
         /\ result' = r.result
         /\ pc' = IF r.over THEN "done" ELSE "loop"
  /\ UNCHANGED <<deduct_curves, cdv_curves, op, curves, before, load_raised,
                 observations, sample_area, deduct_values, max_dvs,
                 sample_units, section>>

\* section.calculate_section_pci(calculator) for a section of units u.
CalculateSectionPci ==
  /\ pc = "idle"
  /\ \E u \in SeqsUpTo(UnitChoices, MaxUnits) :
       /\ sample_units' = u
       /\ section' = calculate_section_pci(deduct_curves, cdv_curves, u)
  /\ op' = "calculate_section_pci"
  /\ pc' = "done"
  /\ ClearLoad /\ ClearSample
  /\ UNCHANGED <<deduct_curves, cdv_curves>>

\* The call is over: the caller has its result (or its error), and the
\* engine keeps nothing of the call but its tables.
Return ==
  /\ pc = "done"
  /\ pc' = "idle"
  /\ op' = "none"
  /\ ClearLoad /\ ClearSample /\ ClearSection
  /\ UNCHANGED <<deduct_curves, cdv_curves>>

Next ==
  \/ LoadDeductCurves
  \/ LoadCdvCurves
  \/ CalculateSamplePci
  \/ IterationRound
  \/ CalculateSectionPci
  \/ Return

Spec == Init /\ [][Next]_vars

\* An engine whose tables are validly loaded: every load_*_curves call is
\* given valid curves only and completes.
LoadDeductCurvesValid == LoadDeductCurves /\ ~load_raised'
LoadCdvCurvesValid == LoadCdvCurves /\ ~load_raised'

NextValid ==
  \/ LoadDeductCurvesValid
  \/ LoadCdvCurvesValid
  \/ CalculateSamplePci
  \/ IterationRound
  \/ CalculateSectionPci
  \/ Return

ValidSpec == Init /\ [][NextValid]_vars

TypeOK ==
  /\ pc \in {"idle", "loop", "done"}
  /\ result.kind \in {"none", "return", "raise"}

(***************************************************************************)
(* Properties                                                              *)
(***************************************************************************)

SampleCall == op = "calculate_sample_pci"
SampleOver == SampleCall /\ pc = "done"
SampleReturned == SampleOver /\ result.kind = "return"
SectionOver == op = "calculate_section_pci" /\ pc = "done"

\* The deduct values > 0 of the call's observations, in observation order
\* (<< >> for a call that gets no further than the area check).
Survivors ==
  IF sample_area <= 0 THEN << >>
  ELSE deduct_value_loop(deduct_curves, observations, sample_area, 1, << >>).values

\* Some observation of the call has a key without a deduct curve.
UnregisteredKey ==
  \E i \in 1..Len(observations) :
    <<observations[i].id, observations[i].severity>> \notin DOMAIN deduct_curves

IsDescending(s) == \A i, j \in 1..Len(s) : i < j => s[i] >= s[j]

\* ---- C1 ----------------------------------------------------------------
\* C1 as stated: a call that returns has 0 <= pci <= 100, and pci = 100
\* exactly when the observation list is empty or no deduct value is above 0.
C1_AsStated ==
  SampleReturned =>
    /\ 0 <= result.pci /\ result.pci <= Num(100)
    /\ result.pci = Num(100) <=> (observations = << >> \/ Survivors = << >>)

\* C1, amended: a call that returns has 0 <= pci <= 100; pci = 100 whenever
\* the observation list is empty or no deduct value is above 0; and pci < 100
\* only if a deduct value above 0 survives and some round's CDV is above 0.
C1_PciRange ==
  SampleReturned =>
    /\ 0 <= result.pci /\ result.pci <= Num(100)
    /\ (observations = << >> \/ Survivors = << >>) => result.pci = Num(100)
    /\ result.pci < Num(100) =>
         /\ Survivors # << >>
         /\ \E i \in 1..Len(iteration_cdvs) : iteration_cdvs[i] > 0

\* A call returns an index strictly between 0 and 100 from surviving deducts.
C1_Witness ==
  /\ SampleReturned
  /\ Survivors # << >>
  /\ 0 < result.pci /\ result.pci < Num(100)

\* ---- C2 ----------------------------------------------------------------
\* What C2 says of the rounds recorded so far: never more than the entries
\* > 2.0 of the capped list plus one, never more than m, and at least one
\* once a call with a surviving deduct value has returned.
C2_RoundsBounded ==
  SampleCall =>
    /\ Len(iteration_cdvs) <= CountAbove2(deduct_values) + 1
    /\ Len(iteration_cdvs) <= max_dvs
    /\ (SampleReturned /\ deduct_values # << >>) => Len(iteration_cdvs) >= 1

\* C2: the loop terminates: every step inside the loop is a round that
\* records one CDV and either ends the call or leaves strictly fewer entries
\* > 2.0 in the working set; the number of rounds is at least 1 when a
\* deduct value survives, at most the initial count of entries > 2.0 plus
\* one, and at most m.
C2_LoopTerminates ==
  /\ []C2_RoundsBounded
  /\ [][pc = "loop" =>
          \/ pc' = "done"
          \/ /\ pc' = "loop"
             /\ Len(iteration_cdvs') = Len(iteration_cdvs) + 1
             /\ CountAbove2(dvs') < CountAbove2(dvs)]_vars

\* A call has returned after three rounds.
C2_Witness ==
  /\ SampleReturned
  /\ Len(iteration_cdvs) = 3
  /\ CountAbove2(deduct_values) = 3

\* ---- C3 ----------------------------------------------------------------
\* C3: when the loop has run, max_cdv is the largest CDV recorded, the first
\* round's CDV (of the capped list, on bucket max(1, q)) is recorded, and
\* pci is 100 - max_cdv clamped to [0, 100].
C3_MaxOfAllRounds ==
  (SampleReturned /\ deduct_values # << >>) =>
    /\ result.iteration_cdvs = iteration_cdvs
    /\ Len(iteration_cdvs) >= 1
    /\ iteration_cdvs[1] =
         get_cdv(cdv_curves, Sum(deduct_values),
                 Max2(1, CountAbove2(deduct_values))).value
    /\ \E i \in 1..Len(iteration_cdvs) : result.max_cdv = iteration_cdvs[i]
    /\ \A i \in 1..Len(iteration_cdvs) : result.max_cdv >= iteration_cdvs[i]
    /\ result.pci = Max2(0, Min2(Num(100), Num(100) - result.max_cdv))

\* A call has returned whose last round's CDV is below an earlier one.
C3_Witness ==
  /\ SampleReturned
  /\ Len(iteration_cdvs) >= 2
  /\ iteration_cdvs[Len(iteration_cdvs)] < result.max_cdv

\* ---- C4 ----------------------------------------------------------------
PositiveUnits(units) == SelectSeq(units, LAMBDA u : u.area > 0)

\* C4: a section of one zero-area unit and otherwise positive-area units
\* gives what the positive-area units alone give (their area-weighted mean).
C4_ZeroAreaUnitIgnored ==
  (/\ SectionOver
   /\ Cardinality({i \in 1..Len(sample_units) : sample_units[i].area = 0}) = 1
   /\ \E i \in 1..Len(sample_units) : sample_units[i].area > 0
   /\ \A i \in 1..Len(sample_units) : sample_units[i].area >= 0)
  => section = calculate_section_pci(deduct_curves, cdv_curves,
                                     PositiveUnits(sample_units))

\* ---- C5 ----------------------------------------------------------------
\* Unit i of the section fails in calculate_sample_pci.
UnitFails(i) ==
  calculate_sample_pci(deduct_curves, cdv_curves,
                       sample_units[i].observations,
                       sample_units[i].area).kind = "raise"

\* C5 as stated: a section with a unit that fails in calculate_sample_pci
\* fails.
C5_AsStated ==
  (SectionOver /\ \E i \in 1..Len(sample_units) : UnitFails(i))
    => section.err # ""

\* C5, amended: a section of non-zero total area with a unit that fails in
\* calculate_sample_pci fails, with the error of its first failing unit.
C5_FailingUnitFailsSection ==
  (/\ SectionOver
   /\ total_area(sample_units) # 0
   /\ \E i \in 1..Len(sample_units) : UnitFails(i))
  => \E i \in 1..Len(sample_units) :
       /\ UnitFails(i)
       /\ \A j \in 1..(i - 1) : ~UnitFails(j)
       /\ section.err # ""
       /\ section.err =
            calculate_sample_pci(deduct_curves, cdv_curves,
                                 sample_units[i].observations,
                                 sample_units[i].area).err

\* A section has failed on its second unit, after a first unit that computes.
C5_Witness ==
  /\ SectionOver
  /\ Len(sample_units) >= 2
  /\ total_area(sample_units) # 0
  /\ ~UnitFails(1)
  /\ UnitFails(2)
  /\ section.err # ""

\* ---- C6 ----------------------------------------------------------------
\* The table a load call builds when every curve of its argument is taken.
CompleteTable(c) ==
  [k \in {c[i].key : i \in 1..Len(c)} |->
     sorted_by_x((CHOOSE e \in {c[i] : i \in 1..Len(c)} : e.key = k).points)]

\* C6: after load_deduct_curves or load_cdv_curves, raised or not, the
\* table is the table before the call or the complete new table.
C6_WholesaleReplace ==
  /\ (op = "load_deduct_curves" /\ pc = "done") =>
       deduct_curves \in {before, CompleteTable(curves)}
  /\ (op = "load_cdv_curves" /\ pc = "done") =>
       cdv_curves \in {before, CompleteTable(curves)}

\* ---- C7 ----------------------------------------------------------------
\* The registered buckets closest to q.
NearestBuckets(keys, q) ==
  {k \in keys : \A n \in keys :
     (IF k >= q THEN k - q ELSE q - k) <= (IF n >= q THEN n - q ELSE q - n)}

\* A round of the loop: get_cdv is called with the total and the count q of
\* the working set.
RoundQ == Max2(1, CountAbove2(dvs))

\* C7 as stated: with a CDV curve registered, a round's lookup does not fail
\* and records the value at tdv of the largest bucket when q is above it,
\* and of a registered bucket closest to q otherwise.
C7_AsStated ==
  [][(pc = "loop" /\ DOMAIN cdv_curves # {}) =>
       /\ result'.kind # "raise"
       /\ Len(iteration_cdvs') = Len(iteration_cdvs) + 1
       /\ \E k \in NearestBuckets(DOMAIN cdv_curves, RoundQ) :
            /\ RoundQ > SetMax(DOMAIN cdv_curves) => k = SetMax(DOMAIN cdv_curves)
            /\ iteration_cdvs'[Len(iteration_cdvs')] =
                 CDVCurve_get_cdv(cdv_curves[k], Sum(dvs))]_vars

\* C7, amended: with a CDV curve registered, a round's lookup takes bucket
\* max(1, min(q, largest registered bucket)): the largest bucket when q is
\* above it and bucket q itself otherwise.  If that bucket is registered the
\* round records its curve's value at tdv; if not, the call fails with the
\* lookup error and records nothing.
C7_ClampToLargest ==
  [][(pc = "loop" /\ DOMAIN cdv_curves # {}) =>
       LET top == SetMax(DOMAIN cdv_curves)
           b == IF RoundQ > top THEN Max2(1, top) ELSE RoundQ
       IN  IF b \in DOMAIN cdv_curves
             THEN /\ result'.kind # "raise"
                  /\ iteration_cdvs' =
                       Append(iteration_cdvs,
                              CDVCurve_get_cdv(cdv_curves[b], Sum(dvs)))
             ELSE /\ result' = Raise("No CDV curve for q")
                  /\ pc' = "done"
                  /\ iteration_cdvs' = iteration_cdvs]_vars

\* A round has recorded a CDV for a q above the largest registered bucket.
C7_Witness ==
  /\ SampleCall
  /\ DOMAIN cdv_curves # {}
  /\ CountAbove2(deduct_values) > SetMax(DOMAIN cdv_curves)
  /\ Len(iteration_cdvs) >= 1

\* ---- C8 ----------------------------------------------------------------
\* C8: the capped list is no longer than max(1, floor(1 + (9/98)(100 - HDV)))
\* and is the front of the survivors sorted in descending order; the result
\* reports that list.
C8_Capping ==
  (SampleCall /\ Survivors # << >> /\ ~UnregisteredKey) =>
    LET hdv == SeqMax(Survivors)
        n == Len(deduct_values)
    IN  /\ hdv > 0 /\ hdv <= Num(100)
        /\ n >= 1
        /\ n = 1 \/ 98 * Scale * (n - 1) <= 9 * (Num(100) - hdv)
        /\ IsDescending(deduct_values)
        /\ deduct_values = SubSeq(sort_reverse(Survivors), 1, n)
        /\ n < Len(Survivors) =>
             98 * Scale * n > 9 * (Num(100) - hdv)
        /\ SampleReturned => result.deduct_values = deduct_values

\* A call has returned a list from which the cap cut a surviving value.
C8_Witness ==
  /\ SampleReturned
  /\ Len(result.deduct_values) = 2
  /\ Len(Survivors) = 3

\* ---- C9 ----------------------------------------------------------------
\* C9: a call with sample_area <= 0 raises the invalid-input error, for
\* the empty observation list too; the perfect-pavement result for no
\* observations is returned exactly for a positive area.
C9_AreaCheckedFirst ==
  SampleCall =>
    /\ sample_area <= 0 =>
         /\ pc = "done"
         /\ result = Raise("Sample area must be positive")
    /\ (observations = << >> /\ sample_area > 0) =>
         /\ pc = "done"
         /\ result = PerfectPavement

\* A call with no observations and a non-positive area has raised.
C9_Witness ==
  /\ SampleOver
  /\ observations = << >>
  /\ sample_area <= 0
  /\ result.kind = "raise"

\* ---- C10 ---------------------------------------------------------------
\* C10 as stated: a call with an observation whose key has no deduct curve
\* fails with the lookup error.
C10_AsStated ==
  (SampleCall /\ UnregisteredKey) =>
    /\ pc = "done"
    /\ result = Raise("No deduct curve")

\* C10, amended: a call with a positive sample area and an observation whose
\* key has no deduct curve fails with the lookup error, whatever the
\* quantity and the other observations; with a non-positive area it fails
\* with the invalid-input error of the area check.  No result is returned.
C10_LookupError ==
  (SampleCall /\ UnregisteredKey) =>
    /\ pc = "done"
    /\ sample_area > 0 => result = Raise("No deduct curve")
    /\ sample_area <= 0 => result = Raise("Sample area must be positive")

\* A call has failed on an unregistered key of quantity 0 that follows an
\* observation with a registered key.
C10_Witness ==
  /\ SampleOver
  /\ sample_area > 0
  /\ Len(observations) >= 2
  /\ <<observations[1].id, observations[1].severity>> \in DOMAIN deduct_curves
  /\ \E i \in 2..Len(observations) :
       /\ <<observations[i].id, observations[i].severity>> \notin DOMAIN deduct_curves
       /\ observations[i].quantity = 0
  /\ result.kind = "raise"

\* ---- C11 ---------------------------------------------------------------
\* What a finished call leaves: its result is the one the tables and the
\* arguments determine, whatever calls came before, and a table loaded is
\* the one its argument determines, whatever table was there before.
C11_ResultOfInputsAlone ==
  /\ SampleOver =>
       result = calculate_sample_pci(deduct_curves, cdv_curves,
                                     observations, sample_area)
  /\ SectionOver =>
       section = calculate_section_pci(deduct_curves, cdv_curves, sample_units)
  /\ (op = "load_deduct_curves" /\ pc = "done") =>
       deduct_curves = load_deduct_curves(curves).table
  /\ (op = "load_cdv_curves" /\ pc = "done") =>
       cdv_curves = load_cdv_curves(curves).table

Lookups ==
  IF ~SampleCall \/ sample_area <= 0 \/ UnregisteredKey THEN {}
  ELSE {<<deduct_curves[<<observations[i].id, observations[i].severity>>],
          calculate_density(observations[i].quantity, sample_area)>> :
          i \in 1..Len(observations)}
       \cup
       (IF Len(iteration_cdvs) >= 1
          THEN {<<cdv_curves[Max2(1, Min2(Max2(1, CountAbove2(deduct_values)),
                                         SetMax(DOMAIN cdv_curves)))],
                  Sum(deduct_values)>>}
          ELSE {})

StrictlyInside(points, x) ==
  points[1][1] < x /\ x < points[Len(points)][1]

\* Queries at or outside the ends give the first or the last y.
EndsAreFlat(points, x) ==
  /\ x <= points[1][1] => interpolate_curve(points, x) = points[1][2]
  /\ x >= points[Len(points)][1] =>
       interpolate_curve(points, x) = points[Len(points)][2]

C13_OneEntryFlattened ==
  [][(pc = "loop" /\ pc' = "loop") =>
       /\ Len(dvs') = Len(dvs)
       /\ IsDescending(dvs) /\ IsDescending(dvs')
       /\ CountAbove2(dvs') = CountAbove2(dvs) - 1
       /\ Sum(dvs') <= Sum(dvs)
       /\ \E i \in 1..Len(dvs) :
            /\ dvs[i] > Num(2)
            /\ \A j \in (i + 1)..Len(dvs) : dvs[j] <= Num(2)
            /\ \A j \in 1..Len(dvs) : dvs[j] > Num(2) => dvs[j] >= dvs[i]
            /\ dvs'[i] = Num(2)
            /\ \A j \in 1..Len(dvs) : j # i => dvs'[j] = dvs[j]]_vars

\* A round has flattened an entry that is not the last of the working set:
\* an entry of at most 2.0 stands to its right.
C13_Witness ==
  /\ SampleCall
  /\ pc = "loop"
  /\ Len(iteration_cdvs) = 1
  /\ Len(dvs) = 3
  /\ deduct_values[3] <= Num(2)
  /\ deduct_values[2] > Num(2)
  /\ dvs[2] = Num(2)

\* ---- C14 ---------------------------------------------------------------
\* C14: the deduct_values of a result is the capped list as it stood before
\* the loop: the front of the surviving values in descending order, every
\* entry above 0, with none of the 2.0 the loop puts into its working set.
C14_ReportedListUntouched ==
  SampleReturned =>
    /\ result.deduct_values = deduct_values
    /\ IsDescending(result.deduct_values)
    /\ \A i \in 1..Len(result.deduct_values) : result.deduct_values[i] > 0
    /\ result.deduct_values =
         SubSeq(sort_reverse(Survivors), 1, Len(result.deduct_values))
    /\ Len(iteration_cdvs) >= 2 => dvs # result.deduct_values

\* A call has returned a list with an entry above 2.0 where its working set
\* ended with 2.0.
C14_Witness ==
  /\ SampleReturned
  /\ Len(iteration_cdvs) >= 2
  /\ \E i \in 1..Len(dvs) :
       dvs[i] = Num(2) /\ result.deduct_values[i] > Num(2)

====
